---- MODULE Spec2Model ----
(***************************************************************************)
(* PlantUMLTracer (src/src/core/plantuml_tracer.py): the line buffer, the  *)
(* participant set and the single pending call group, driven by traced     *)
(* calls that may nest, and by get_diagram.  Lines are the strings the     *)
(* code builds.  Two drivers share the tracer's operators: Spec lets any   *)
(* traced function f, g behave arbitrarily (return, raise, call traced     *)
(* functions); SpecNested does the same with functions that only return,   *)
(* over longer call sequences; SpecMain runs the four traced functions of  *)
(* src/main.py.  Further drivers apply one operation at a time:            *)
(* SpecFormat (_format_value), SpecSignature (the call signature),         *)
(* SpecRender (diagram_renderer.py), SpecMonitor (monitor_script) and      *)
(* SpecSampler (MonitorScript and its sampling thread).                    *)
(***************************************************************************)
EXTENDS Integers, Sequences, FiniteSets, TLC

\* ---------------------------------------------------------------- bounds
MaxCalls == 3
MaxDepth == 2
MaxDiagrams == 2
MaxMainCalls == 3
MaxNestedCalls == 4
MaxLen == 2

\* ------------------------------------------------------------- constants
LOOP_THRESHOLD == 3
SIG_LIMIT == 100
RANGE_PARSE == 3

VARIABLES
  _uml_lines,     \* self._uml_lines: the list of diagram lines
  _participants,  \* self._participants: the set of registered names
  _pending_call,  \* self._pending_call: None or {info, lines, count}
  stack,         \* the wrapper invocations that are executing, outermost first
  calls,         \* history: one entry per wrapper invocation, in entry order
  last,          \* what the caller of the last finished operation observed
  top,           \* the frame of the code that calls the tracer from outside
  ndiagrams,     \* number of get_diagram calls so far
  files,         \* the file system: the set of <<path, content>> of its files
  emails,        \* the alert emails handed to the SMTP server, in order
  rows,          \* the monitoring rows written to the database, in order
  script         \* a MonitorScript object, its sampling thread and its with statement

vars == <<_uml_lines, _participants, _pending_call, stack, calls, last, top, ndiagrams,
          files, emails, rows, script>>

\* what lies outside the tracer
outside == <<files, emails, rows, script>>
tracer == <<_uml_lines, _participants, _pending_call, stack, calls, top, ndiagrams>>

\* ---------------------------------------------------------------- values
None == [t |-> "None"]

\* MonitorScript.__init__, with the sampling thread not started and the with
\* statement at its beginning
NewScript ==
  [_running |-> FALSE, cpu_samples |-> <<>>, mem_samples |-> <<>>,
   status |-> "Success", error_message |-> None,
   thread |-> "unstarted", main |-> "new", at_stop |-> 0]

Str(s) == [t |-> "str", s |-> s]
Bool(b) == [t |-> "bool", b |-> b]

\* repr() of a str without quotes, backslashes or control characters
ReprStr(s) == "'" \o s \o "'"

\* Path(...).name: the last component of a path given by its components
PathName(parts) == IF Len(parts) = 0 THEN "" ELSE parts[Len(parts)]

\* what a call does: it returns a value or raises an exception.  An exception
\* has the name of its class, whether the class derives from Exception,
\* whether the instance is truthy, and the identity of the instance.
Return(v) == [t |-> "return", value |-> v]
Raise(e) == [t |-> "raise", exc |-> e]
Exc(kind, isException, truthy, id) ==
  [kind |-> kind, isException |-> isException, truthy |-> truthy, id |-> id]

\* A value may carry what its class overrides:
\*   sub        the name of its class, when it is a subclass of its kind
\*   fault      [op, exc]: the operation op of the value raises exc, op being
\*              "isinstance" (a raising __class__), "len", "attr" or "repr"
\*   name_fails type(val).__name__ raises (a property of the metaclass)
\*   repr       what its __repr__ returns
FaultAt(val, op) == "fault" \in DOMAIN val /\ val.fault.op = op
NameFails(val) == "name_fails" \in DOMAIN val /\ val.name_fails
NameError == Raise(Exc("RuntimeError", TRUE, TRUE, 0))
ReprOf(val) ==
  IF "repr" \in DOMAIN val THEN val.repr
  ELSE IF val.t = "str" THEN ReprStr(val.s)
  ELSE IF val.t = "int" THEN ToString(val.n)
  ELSE IF val.b THEN "True" ELSE "False"

\* type(val).__name__
TypeName(val) ==
  IF "sub" \in DOMAIN val THEN val.sub
  ELSE IF val.t = "None" THEN "NoneType"
  ELSE IF val.t = "class" THEN "type"
  ELSE IF val.t = "Path" THEN "PosixPath"
  ELSE IF val.t \in {"DataFrame", "Series", "str", "int", "bool", "list", "dict", "tuple"}
    THEN val.t
  ELSE val.type

\* mutant: a value whose operation fails gets the fallback of the second
\* handler, whatever its type name
FallbackFixed(val) == Return("<Error: Unformattable Object>")

\* _format_value, the handlers: the fallback for an Exception of the rules
FormatFallback(val) ==
  IF NameFails(val) THEN Return("<Error: Unformattable Object>")
  ELSE Return("<Object type: " \o TypeName(val) \o ">")

\* mutant: a container shows what its first element is
FormatRulesContents(val) ==
  IF val.t = "None" THEN Return("None")
  ELSE IF FaultAt(val, "isinstance") THEN Raise(val.fault.exc)
  ELSE IF val.t = "class"
    THEN IF FaultAt(val, "attr") THEN Raise(val.fault.exc)
         ELSE Return("<Class: " \o val.name \o ">")
  ELSE IF val.t = "DataFrame"
    THEN IF FaultAt(val, "attr") THEN Raise(val.fault.exc)
         ELSE Return("<DataFrame shape=(" \o ToString(val.rows) \o ", "
                       \o ToString(val.cols) \o ")>")
  ELSE IF val.t = "Series"
    THEN IF FaultAt(val, "attr") \/ FaultAt(val, "len") THEN Raise(val.fault.exc)
         ELSE Return("<" \o (IF val.name # "" THEN val.name ELSE "Series")
                       \o " len=" \o ToString(val.len) \o ">")
  ELSE IF val.t \in {"str", "int", "bool"}
    THEN IF FaultAt(val, "repr") THEN Raise(val.fault.exc)
         ELSE Return(ReprOf(val))
  ELSE IF val.t = "Path"
    THEN IF FaultAt(val, "attr") THEN Raise(val.fault.exc)
         ELSE Return("Path('" \o PathName(val.parts) \o "')")
  ELSE IF val.t \in {"list", "dict", "tuple"}
    THEN IF NameFails(val) THEN NameError
         ELSE IF FaultAt(val, "len") THEN Raise(val.fault.exc)
         ELSE IF "items" \in DOMAIN val
           THEN Return("<" \o TypeName(val) \o " of " \o val.items[1].t \o "...>")
         ELSE Return("<" \o TypeName(val) \o " len=" \o ToString(val.len) \o ">")
  ELSE IF NameFails(val) THEN NameError
  ELSE Return("<" \o TypeName(val) \o " object>")

\* _format_value, the body of the try statement: first matching rule wins
FormatRules(val) ==
  IF val.t = "None" THEN Return("None")
  ELSE IF FaultAt(val, "isinstance") THEN Raise(val.fault.exc)
  ELSE IF val.t = "class"
    THEN IF FaultAt(val, "attr") THEN Raise(val.fault.exc)
         ELSE Return("<Class: " \o val.name \o ">")
  ELSE IF val.t = "DataFrame"
    THEN IF FaultAt(val, "attr") THEN Raise(val.fault.exc)
         ELSE Return("<DataFrame shape=(" \o ToString(val.rows) \o ", "
                       \o ToString(val.cols) \o ")>")
  ELSE IF val.t = "Series"
    THEN IF FaultAt(val, "attr") \/ FaultAt(val, "len") THEN Raise(val.fault.exc)
         ELSE Return("<" \o (IF val.name # "" THEN val.name ELSE "Series")
                       \o " len=" \o ToString(val.len) \o ">")
  ELSE IF val.t \in {"str", "int", "bool"}
    THEN IF FaultAt(val, "repr") THEN Raise(val.fault.exc)
         ELSE Return(ReprOf(val))
  ELSE IF val.t = "Path"
    THEN IF FaultAt(val, "attr") THEN Raise(val.fault.exc)
         ELSE Return("Path('" \o PathName(val.parts) \o "')")
  ELSE IF val.t \in {"list", "dict", "tuple"}
    THEN IF NameFails(val) THEN NameError
         ELSE IF FaultAt(val, "len") THEN Raise(val.fault.exc)
         ELSE Return("<" \o TypeName(val) \o " len=" \o ToString(val.len) \o ">")
  ELSE IF NameFails(val) THEN NameError
  ELSE Return("<" \o TypeName(val) \o " object>")

\* PlantUMLTracer._format_value: what the call does, the string it returns or
\* the exception that leaves it
_format_value(val) ==
  LET o == FormatRules(val) IN
  IF o.t = "raise" /\ o.exc.isException THEN FormatFallback(val) ELSE o

\* the string _format_value returns for a value of the traced calls
Formatted(val) == _format_value(val).value

\* ------------------------------------------------------------ list helpers
\* list.insert(i, x) with a 0-based index i >= 0
ListInsert(l, i, x) ==
  LET k == IF i > Len(l) THEN Len(l) ELSE i
  IN SubSeq(l, 1, k) \o <<x>> \o SubSeq(l, k + 1, Len(l))

\* sep.join(strs)
RECURSIVE Join(_, _)
Join(strs, sep) ==
  IF Len(strs) = 0 THEN ""
  ELSE IF Len(strs) = 1 THEN strs[1]
  ELSE strs[1] \o sep \o Join(Tail(strs), sep)

\* lines extended n times onto an empty list: for _ in range(n): extend(lines)
RECURSIVE Unrolled(_, _)
Unrolled(lines, n) == IF n <= 0 THEN <<>> ELSE lines \o Unrolled(lines, n - 1)

\* ----------------------------------------------------------- tracer state
\* The tracer's three fields as one record, so that the methods are operators.
Tracer == [uml_lines |-> _uml_lines, participants |-> _participants,
           pending_call |-> _pending_call]

\* PlantUMLTracer.__init__
NewTracer == [uml_lines |-> <<"@startuml">>, participants |-> {}, pending_call |-> None]

ParticipantLine(name) == "participant \"" \o name \o "\""

\* mutant: the name is declared again at every call
AddParticipantAgain(T, name) ==
  [T EXCEPT !.participants = @ \cup {name},
            !.uml_lines = ListInsert(@, 1, ParticipantLine(name))]

\* mutant: the declaration is appended at the end of the buffer
AppendParticipant(T, name) ==
  IF name \notin T.participants
    THEN [T EXCEPT !.participants = @ \cup {name},
                   !.uml_lines = Append(@, ParticipantLine(name))]
    ELSE T

\* PlantUMLTracer._add_participant
_add_participant(T, name) ==
  IF name \notin T.participants
    THEN [T EXCEPT !.participants = @ \cup {name},
                   !.uml_lines = ListInsert(@, 1, ParticipantLine(name))]
    ELSE T

LoopOpenLine(count) == "loop " \o ToString(count) \o " times"
LoopCloseLine == "end"

\* mutant: the flushed group stays in the pending slot
FlushKeepPending(T) ==
  IF T.pending_call = None THEN T
  ELSE LET call_data == T.pending_call IN
    [T EXCEPT
       !.uml_lines =
         IF call_data.count >= LOOP_THRESHOLD
           THEN @ \o <<LoopOpenLine(call_data.count)>> \o call_data.lines \o <<LoopCloseLine>>
           ELSE @ \o Unrolled(call_data.lines, call_data.count)]

\* mutant: a group of two calls is written as a loop block already
FlushLoopEarly(T) ==
  IF T.pending_call = None THEN T
  ELSE LET call_data == T.pending_call IN
    [T EXCEPT
       !.uml_lines =
         IF call_data.count >= 2
           THEN @ \o <<LoopOpenLine(call_data.count)>> \o call_data.lines \o <<LoopCloseLine>>
           ELSE @ \o Unrolled(call_data.lines, call_data.count),
       !.pending_call = None]

\* PlantUMLTracer._flush_pending_call
_flush_pending_call(T) ==
  IF T.pending_call = None THEN T
  ELSE LET call_data == T.pending_call IN
    [T EXCEPT
       !.uml_lines =
         IF call_data.count >= LOOP_THRESHOLD
           THEN @ \o <<LoopOpenLine(call_data.count)>> \o call_data.lines \o <<LoopCloseLine>>
           ELSE @ \o Unrolled(call_data.lines, call_data.count),
       !.pending_call = None]

\* ------------------------------------------------------------ the wrapper
\* A frame of calling code: a named function, module-level code of a file, or
\* a stack that inspect cannot read (IndexError, or any other Exception).
FunctionFrame(name) == [kind |-> "function", function |-> name]
ModuleFrame(parts) == [kind |-> "function", function |-> "<module>", filename |-> parts]

\* wrapper, resolution of the caller's name
CallerName(frame) ==
  IF frame.kind = "IndexError" THEN "User"
  ELSE IF frame.kind # "function" THEN "Unknown"
  ELSE IF frame.function = "<module>"
    THEN "[Module: " \o PathName(frame.filename) \o "]"
  ELSE frame.function

\* mutant: the cut keeps the whole text within SIG_LIMIT characters
CallSignatureCut(callee_name, args, kwargs) ==
  LET args_repr == [i \in 1..Len(args) |-> Formatted(args[i])]
      kwargs_repr == [i \in 1..Len(kwargs) |->
                        kwargs[i][1] \o "=" \o Formatted(kwargs[i][2])]
      joined == Join(args_repr \o kwargs_repr, ", ")
      full_sig == IF Len(joined) > SIG_LIMIT
                    THEN SubSeq(joined, 1, SIG_LIMIT - 3) \o "..."
                    ELSE joined
  IN callee_name \o "(" \o full_sig \o ")"

\* wrapper, the call signature: kwargs is a sequence of <<key, value>> pairs
CallSignature(callee_name, args, kwargs) ==
  LET args_repr == [i \in 1..Len(args) |-> Formatted(args[i])]
      kwargs_repr == [i \in 1..Len(kwargs) |->
                        kwargs[i][1] \o "=" \o Formatted(kwargs[i][2])]
      joined == Join(args_repr \o kwargs_repr, ", ")
      full_sig == IF Len(joined) > SIG_LIMIT
                    THEN SubSeq(joined, 1, SIG_LIMIT) \o "..."
                    ELSE joined
  IN callee_name \o "(" \o full_sig \o ")"

CallArrowLine(caller_name, callee_name, call_signature) ==
  "\"" \o caller_name \o "\" -> \"" \o callee_name \o "\": " \o call_signature
ActivateLine(callee_name) == "activate \"" \o callee_name \o "\""
\* the f-string is continued over two source lines: the second line's
\* indentation (28 spaces) is part of the text
ReturnArrowLine(caller_name, callee_name, formatted_result) ==
  "\"" \o callee_name \o "\" --> \"" \o caller_name \o "\": "
    \o "                            " \o "return " \o formatted_result
ExceptionArrowLine(caller_name, callee_name, kind) ==
  "\"" \o callee_name \o "\" -x \"" \o caller_name \o "\": " \o "raise " \o kind
DeactivateLine(callee_name) == "deactivate \"" \o callee_name \o "\""

\* "return result" with result never assigned
UnboundLocal == Raise(Exc("UnboundLocalError", TRUE, TRUE, 0))

\* wrapper, "Check for Loop": is this call a repeat of the pending group?
IsRepeat(T, info) ==
  /\ T.pending_call # None
  /\ T.pending_call.info = info

\* wrapper, from its entry to the call of func: the tracer afterwards, and the
\* wrapper's frame (its locals)
WrapperEnter(T, caller_frame, callee_name, args, kwargs, id) ==
  LET caller_name == CallerName(caller_frame)
      T1 == _add_participant(_add_participant(T, caller_name), callee_name)
      call_signature == CallSignature(callee_name, args, kwargs)
      info == <<caller_name, callee_name>>
      repeat == IsRepeat(T1, info)
      T2 == IF repeat THEN [T1 EXCEPT !.pending_call.count = @ + 1]
                      ELSE _flush_pending_call(T1)
      call_lines == IF repeat THEN <<>>
                    ELSE <<CallArrowLine(caller_name, callee_name, call_signature),
                           ActivateLine(callee_name)>>
  IN [tracer |-> T2,
      frame |-> [id |-> id, caller |-> caller_name, callee |-> callee_name,
                 args |-> args, repeat |-> repeat, call_lines |-> call_lines,
                 sig |-> call_signature, i |-> 0]]

\* wrapper, "if exception_to_raise: raise exception_to_raise; return result"
ReturnOrReraise(out) ==
  IF out.t = "raise" /\ out.exc.truthy THEN out
  ELSE IF out.t = "raise" THEN UnboundLocal
  ELSE out

\* mutant: a repeat logs the deactivate line of its call
WrapperExitLogging(T, frame, out) ==
  IF frame.repeat /\ T.pending_call # None
    THEN [tracer |-> [T EXCEPT !.pending_call.lines = Append(@, DeactivateLine(frame.callee))],
          seen |-> out]
  ELSE IF frame.repeat \/ (out.t = "raise" /\ ~out.exc.isException)
    THEN [tracer |-> T, seen |-> out]
  ELSE
    LET return_lines ==
          IF out.t = "return"
            THEN <<ReturnArrowLine(frame.caller, frame.callee, Formatted(out.value)),
                   DeactivateLine(frame.callee)>>
            ELSE <<ExceptionArrowLine(frame.caller, frame.callee, out.exc.kind),
                   DeactivateLine(frame.callee)>>
    IN [tracer |-> [T EXCEPT !.pending_call =
                      [info |-> <<frame.caller, frame.callee>>,
                       lines |-> frame.call_lines \o return_lines,
                       count |-> 1]],
        seen |-> IF out.t = "raise" /\ ~out.exc.truthy
                   THEN Raise(Exc("UnboundLocalError", TRUE, TRUE, 0)) ELSE out]

\* mutant: a repeat replaces the result line of the group by its own outcome
WrapperExitLastOutcome(T, frame, out) ==
  IF frame.repeat /\ T.pending_call # None /\ Len(T.pending_call.lines) = 4
    THEN [tracer |-> [T EXCEPT !.pending_call.lines[3] =
                        IF out.t = "return"
                          THEN ReturnArrowLine(frame.caller, frame.callee, Formatted(out.value))
                          ELSE ExceptionArrowLine(frame.caller, frame.callee, out.exc.kind)],
          seen |-> out]
  ELSE IF frame.repeat \/ (out.t = "raise" /\ ~out.exc.isException)
    THEN [tracer |-> T, seen |-> out]
  ELSE
    LET return_lines ==
          IF out.t = "return"
            THEN <<ReturnArrowLine(frame.caller, frame.callee, Formatted(out.value)),
                   DeactivateLine(frame.callee)>>
            ELSE <<ExceptionArrowLine(frame.caller, frame.callee, out.exc.kind),
                   DeactivateLine(frame.callee)>>
    IN [tracer |-> [T EXCEPT !.pending_call =
                      [info |-> <<frame.caller, frame.callee>>,
                       lines |-> frame.call_lines \o return_lines,
                       count |-> 1]],
        seen |-> IF out.t = "raise" /\ ~out.exc.truthy
                   THEN Raise(Exc("UnboundLocalError", TRUE, TRUE, 0)) ELSE out]

\* wrapper, from the outcome of func to the wrapper's own outcome: the tracer
\* afterwards and what the wrapper's caller observes
WrapperExit(T, frame, out) ==
  IF frame.repeat THEN [tracer |-> T, seen |-> out]
  ELSE IF out.t = "raise" /\ ~out.exc.isException
    \* not caught by "except Exception": finally runs, the exception leaves
    THEN [tracer |-> T, seen |-> out]
  ELSE
    LET return_lines ==
          IF out.t = "return"
            THEN <<ReturnArrowLine(frame.caller, frame.callee, Formatted(out.value)),
                   DeactivateLine(frame.callee)>>
            ELSE <<ExceptionArrowLine(frame.caller, frame.callee, out.exc.kind),
                   DeactivateLine(frame.callee)>>
    IN [tracer |-> [T EXCEPT !.pending_call =
                      [info |-> <<frame.caller, frame.callee>>,
                       lines |-> frame.call_lines \o return_lines,
                       count |-> 1]],
        seen |-> ReturnOrReraise(out)]

\* mutant: the text is built from a flushed copy, the tracer keeps its group
GetDiagramPeek(T) ==
  [tracer |-> T, text |-> Join(_flush_pending_call(T).uml_lines, "\n") \o "\n@enduml\n"]

\* PlantUMLTracer.get_diagram: the tracer afterwards and the text returned
get_diagram(T) ==
  LET T1 == _flush_pending_call(T)
  IN [tracer |-> T1, text |-> Join(T1.uml_lines, "\n") \o "\n@enduml\n"]

\* ------------------------------------------------------- shared bookkeeping
Running == [t |-> "running"]
NoOp == [op |-> "none"]

SetTracer(T) ==
  /\ _uml_lines' = T.uml_lines
  /\ _participants' = T.participants
  /\ _pending_call' = T.pending_call

\* the frame that calls the wrapper: the innermost executing traced function,
\* or the outside code
CurrentFrame ==
  IF stack = <<>> THEN top ELSE FunctionFrame(stack[Len(stack)].callee)

\* a traced function is called: the wrapper runs up to its call of func;
\* callers is the stack of the invocations that stay suspended meanwhile
Enter(callee_name, args, callers) ==
  LET id == Len(calls) + 1
      r == WrapperEnter(Tracer, CurrentFrame, callee_name, args, <<>>, id)
  IN /\ SetTracer(r.tracer)
     /\ stack' = Append(callers, r.frame)
     /\ calls' = Append(calls,
          [id |-> id, info |-> <<r.frame.caller, callee_name>>, sig |-> r.frame.sig,
           parent |-> IF stack = <<>> THEN 0 ELSE stack[Len(stack)].id,
           repeat |-> r.frame.repeat, epoch |-> ndiagrams, out |-> Running])
     /\ UNCHANGED <<last, top, ndiagrams, outside>>

\* func has returned or raised: the rest of the wrapper runs
Exit(out) ==
  LET frame == stack[Len(stack)]
      r == WrapperExit(Tracer, frame, out)
  IN /\ SetTracer(r.tracer)
     /\ stack' = SubSeq(stack, 1, Len(stack) - 1)
     /\ calls' = [calls EXCEPT ![frame.id].out = out]
     /\ last' = [op |-> "call", id |-> frame.id, func |-> out, seen |-> r.seen]
     /\ UNCHANGED <<top, ndiagrams, outside>>

\* the outside code asks for the diagram
GetDiagram ==
  /\ stack = <<>>
  /\ ndiagrams < MaxDiagrams
  /\ LET r == get_diagram(Tracer)
     IN /\ SetTracer(r.tracer)
        /\ last' = [op |-> "get_diagram", text |-> r.text]
  /\ ndiagrams' = ndiagrams + 1
  /\ UNCHANGED <<stack, calls, top, outside>>

\* ------------------------------------------- Spec: arbitrary traced functions
Funcs == {"f", "g"}
\* the arguments of the id-th traced call: each call gets its own row
ArgsOf(id) == <<Str("row_" \o ToString(id - 1))>>
\* what a traced function may do at its end: return a value, raise an ordinary
\* exception, raise one that is not an Exception (KeyboardInterrupt), or raise
\* an exception whose class makes its instances falsy (__len__ returning 0)
Outcomes(id) ==
  { Return(Bool(TRUE)),
    Raise(Exc("FileNotFoundError", TRUE, TRUE, id)),
    Raise(Exc("KeyboardInterrupt", FALSE, TRUE, id)),
    Raise(Exc("EmptyErrors", TRUE, FALSE, id)) }

Init ==
  /\ _uml_lines = NewTracer.uml_lines
  /\ _participants = NewTracer.participants
  /\ _pending_call = NewTracer.pending_call
  /\ stack = <<>>
  /\ calls = <<>>
  /\ last = NoOp
  /\ top = ModuleFrame(<<"app", "main.py">>)
  /\ ndiagrams = 0
  /\ files = {}
  /\ emails = <<>>
  /\ rows = <<>>
  /\ script = NewScript

Call(callee_name, args) ==
  /\ Len(calls) < MaxCalls
  /\ Len(stack) < MaxDepth
  /\ Enter(callee_name, args, stack)

Finish ==
  /\ stack # <<>>
  /\ \E out \in Outcomes(stack[Len(stack)].id) : Exit(out)

Next ==
  \/ \E callee_name \in Funcs : Call(callee_name, ArgsOf(Len(calls) + 1))
  \/ Finish
  \/ GetDiagram

Spec == Init /\ [][Next]_vars

\* ---------------- SpecNested: traced functions that call each other and return
CallNested(callee_name, args) ==
  /\ Len(calls) < MaxNestedCalls
  /\ Len(stack) < MaxDepth
  /\ Enter(callee_name, args, stack)

FinishReturn ==
  /\ stack # <<>>
  /\ Exit(Return(Bool(TRUE)))

NextNested ==
  \/ \E callee_name \in Funcs : CallNested(callee_name, ArgsOf(Len(calls) + 1))
  \/ FinishReturn
  \/ GetDiagram

SpecNested == Init /\ [][NextNested]_vars

\* ------------------------------------------------ SpecMain: src/main.py
\* The calls main() makes, with the arguments they get in main(); the driver
\* makes them in any order, main()'s own order included.
MainCalls ==
  { <<"load_data", <<Str("data.csv")>>>>,
    <<"load_data", <<Str("other_file.csv")>>>>,
    <<"process_data", <<Str("some,csv,data")>>>>,
    <<"save_data", <<Str("processed_data"), Str("output.pkl")>>>> }

\* the outcome of each traced function of main.py, from its body
MainBody(frame) ==
  IF frame.callee = "load_data"
    THEN IF frame.args[1] = Str("data.csv")
           THEN Return(Str("some,csv,data"))
           ELSE Raise(Exc("FileNotFoundError", TRUE, TRUE, frame.id))
  ELSE IF frame.callee = "process_data" THEN Return(Str("processed_data"))
  ELSE Return(Bool(TRUE))

\* number of calls made by main() itself
MainCallCount == Cardinality({k \in 1..Len(calls) : calls[k].parent = 0})

InitMain ==
  /\ _uml_lines = NewTracer.uml_lines
  /\ _participants = NewTracer.participants
  /\ _pending_call = NewTracer.pending_call
  /\ stack = <<>>
  /\ calls = <<>>
  /\ last = NoOp
  /\ top = FunctionFrame("main")
  /\ ndiagrams = 0
  /\ files = {}
  /\ emails = <<>>
  /\ rows = <<>>
  /\ script = NewScript

\* main() calls a traced function
MainCall(item) ==
  /\ stack = <<>>
  /\ MainCallCount < MaxMainCalls
  /\ Enter(item[1], item[2], stack)

\* process_data: for i in range(3): parse_row(f"row_{i}")
ParseLoop ==
  /\ stack # <<>>
  /\ stack[Len(stack)].callee = "process_data"
  /\ stack[Len(stack)].i < RANGE_PARSE
  /\ Enter("parse_row", <<Str("row_" \o ToString(stack[Len(stack)].i))>>,
           [stack EXCEPT ![Len(stack)].i = @ + 1])

\* the body of the executing traced function ends
BodyEnd ==
  /\ stack # <<>>
  /\ stack[Len(stack)].callee = "process_data" => stack[Len(stack)].i = RANGE_PARSE
  /\ Exit(MainBody(stack[Len(stack)]))

NextMain ==
  \/ \E item \in MainCalls : MainCall(item)
  \/ ParseLoop
  \/ BodyEnd
  \/ GetDiagram

SpecMain == InitMain /\ [][NextMain]_vars

\* ------------------------------------------------- driver: _format_value
\* The values given to _format_value: one or more of each kind the rules
\* tell apart, and instances of subclasses that override an operation the
\* rules use.
PlainValues ==
  {None, [t |-> "class", name |-> "XGBoostModel"],
   [t |-> "Path", parts |-> <<"reports", "trace.puml">>],
   [t |-> "object", type |-> "Model"],
   Str(""), Str("data.csv"), [t |-> "int", n |-> 7], Bool(TRUE), Bool(FALSE),
   [t |-> "class", name |-> "DataFrame"]}
  \cup {[t |-> k, len |-> 2, items |-> its] :
           k \in {"list", "tuple"},
           its \in {<<Str("a"), None>>, <<[t |-> "int", n |-> 7], [t |-> "int", n |-> 7]>>}}
  \cup {[t |-> "DataFrame", rows |-> r, cols |-> 2] : r \in 0..MaxLen}
  \cup {[t |-> "Series", name |-> n, len |-> l] : n \in {"", "price"}, l \in 0..MaxLen}
  \cup {[t |-> k, len |-> l] : k \in {"list", "dict", "tuple"}, l \in 0..MaxLen}

\* the operations of a value that _format_value uses and a subclass can
\* override (bool has no subclasses)
FaultOps(val) ==
  IF val.t = "None" THEN {}
  ELSE IF val.t = "class" THEN {"attr"}
  ELSE IF val.t = "DataFrame" THEN {"isinstance", "attr"}
  ELSE IF val.t = "Series" THEN {"isinstance", "attr", "len"}
  ELSE IF val.t \in {"str", "int"} THEN {"isinstance", "repr"}
  ELSE IF val.t = "bool" THEN {}
  ELSE IF val.t = "Path" THEN {"isinstance", "attr"}
  ELSE IF val.t \in {"list", "dict", "tuple"} THEN {"isinstance", "len"}
  ELSE {"isinstance"}

FaultExceptions ==
  {Exc("RuntimeError", TRUE, TRUE, 0), Exc("KeyboardInterrupt", FALSE, TRUE, 0)}

FaultyValues ==
  {[sub |-> "Weird", fault |-> [op |-> x[2], exc |-> x[3]], name_fails |-> x[4]] @@ x[1] :
     x \in {y \in PlainValues \X {"isinstance", "attr", "len", "repr"}
                    \X FaultExceptions \X BOOLEAN : y[2] \in FaultOps(y[1])}}

UnnamedValues ==
  {[sub |-> "Weird", name_fails |-> TRUE] @@ val : val \in {v \in PlainValues : v.t \notin {"None", "bool"}}}

ReprValues ==
  {[sub |-> "Weird", repr |-> r] @@ Str("x") : r \in {"", "<S>"}}

\* instances of subclasses that override nothing: a named tuple, an
\* OrderedDict, a subclass of DataFrame, of Series and of an ordinary class
SubclassValues ==
  {[sub |-> "Point"] @@ [t |-> "tuple", len |-> 2],
   [sub |-> "OrderedDict"] @@ [t |-> "dict", len |-> 1],
   [sub |-> "GeoDataFrame"] @@ [t |-> "DataFrame", rows |-> 1, cols |-> 2],
   [sub |-> "Prices"] @@ [t |-> "Series", name |-> "", len |-> 1],
   [sub |-> "LinearModel"] @@ [t |-> "object", type |-> "Model"]}

FormatValues ==
  PlainValues \cup FaultyValues \cup UnnamedValues \cup ReprValues \cup SubclassValues

InitFormat == Init

\* one call of _format_value
Format(val) ==
  /\ last' = [op |-> "format", val |-> val, out |-> _format_value(val)]
  /\ UNCHANGED <<tracer, outside>>

NextFormat == \E val \in FormatValues : Format(val)

SpecFormat == InitFormat /\ [][NextFormat]_vars

\* ------------------------------------------- diagram_renderer.py: rendering
\* the index of the last "." of name at or before i, 0 if there is none
RECURSIVE RFindDot(_, _)
RFindDot(name, i) ==
  IF i = 0 THEN 0
  ELSE IF SubSeq(name, i, i) = "." THEN i
  ELSE RFindDot(name, i - 1)

\* PurePath.suffix of a file name: from the last dot on, unless that dot is
\* the first or the last character
Suffix(name) ==
  LET i == RFindDot(name, Len(name))
  IN IF 1 < i /\ i < Len(name) THEN SubSeq(name, i, Len(name)) ELSE ""

\* PurePath.with_suffix for a path that has a name
WithSuffix(parts, suffix) ==
  LET name == PathName(parts)
      stem == SubSeq(name, 1, Len(name) - Len(Suffix(name)))
  IN SubSeq(parts, 1, Len(parts) - 1) \o <<stem \o suffix>>

\* str(path)
PathStr(parts) == Join(parts, "/")

\* mutant: the file is not written
WriteNothing(fs, path, content) == fs

\* the file system
Exists(fs, path) == \E f \in fs : f[1] = path
WriteFile(fs, path, content) == {f \in fs : f[1] # path} \cup {<<path, content>>}
ReadFile(fs, path) == (CHOOSE f \in fs : f[1] = path)[2]

\* what the rendered image file holds
Image(content) == "PNG of " \o content

\* mutant: success is reported without looking for the image
RenderUnchecked(fs, puml_content, output_file_base, env) ==
  IF PathName(output_file_base) = ""
    THEN [files |-> fs, out |-> Raise(Exc("ValueError", TRUE, TRUE, 0))]
  ELSE
    LET puml_file == PathStr(WithSuffix(output_file_base, ".puml"))
        png_file == PathStr(WithSuffix(output_file_base, ".png"))
        fs2 == WriteFile(fs, puml_file, puml_content)
        fs3 == IF env.png THEN WriteFile(fs2, png_file, Image(puml_content)) ELSE fs2
    IN IF env.mkdir # "ok" \/ env.open # "ok" THEN [files |-> fs, out |-> Return(Bool(FALSE))]
       ELSE IF env.write # "ok"
         THEN [files |-> WriteFile(fs, puml_file, ""), out |-> Return(Bool(FALSE))]
       ELSE IF ~env.jar \/ env.java = "missing" THEN [files |-> fs2, out |-> Return(Bool(FALSE))]
       ELSE IF env.java = "interrupt"
         THEN [files |-> fs2, out |-> Raise(Exc("KeyboardInterrupt", FALSE, TRUE, 0))]
       ELSE IF env.java = "nonzero" THEN [files |-> fs3, out |-> Return(Bool(FALSE))]
       ELSE [files |-> fs3, out |-> Return(Bool(TRUE))]

\* mutant: an exception raised in the try statement leaves the function
Unhandled(e) == Raise(e)

\* render_plantuml_to_png, the handlers of its try statement:
\* FileNotFoundError, CalledProcessError and any other Exception give False
RenderHandlers(e) == IF e.isException THEN Return(Bool(FALSE)) ELSE Raise(e)

\* render_plantuml_to_png: the file system afterwards and what the call does.
\* env is what the outside does during the call: mkdir and open succeed or
\* raise, write succeeds or raises after the file was truncated, the jar is
\* there or not, and java is missing, is interrupted, exits with a non-zero
\* status or exits with 0, having written the image or not.
render_plantuml_to_png(fs, puml_content, output_file_base, env) ==
  IF PathName(output_file_base) = ""
    \* with_suffix, before the try statement
    THEN [files |-> fs, out |-> Raise(Exc("ValueError", TRUE, TRUE, 0))]
  ELSE
    LET puml_file == PathStr(WithSuffix(output_file_base, ".puml"))
        png_file == PathStr(WithSuffix(output_file_base, ".png"))
        fs1 == WriteFile(fs, puml_file, "")
        fs2 == WriteFile(fs, puml_file, puml_content)
        fs3 == IF env.png THEN WriteFile(fs2, png_file, Image(puml_content)) ELSE fs2
    IN IF env.mkdir # "ok"
         THEN [files |-> fs, out |-> RenderHandlers(Exc(env.mkdir, TRUE, TRUE, 0))]
       ELSE IF env.open # "ok"
         THEN [files |-> fs, out |-> RenderHandlers(Exc(env.open, TRUE, TRUE, 0))]
       ELSE IF env.write # "ok"
         THEN [files |-> fs1, out |-> RenderHandlers(Exc(env.write, TRUE, TRUE, 0))]
       ELSE IF ~env.jar THEN [files |-> fs2, out |-> Return(Bool(FALSE))]
       ELSE IF env.java = "missing"
         THEN [files |-> fs2, out |-> RenderHandlers(Exc("FileNotFoundError", TRUE, TRUE, 0))]
       ELSE IF env.java = "interrupt"
         THEN [files |-> fs2, out |-> RenderHandlers(Exc("KeyboardInterrupt", FALSE, TRUE, 0))]
       ELSE IF env.java = "nonzero"
         THEN [files |-> fs3, out |-> RenderHandlers(Exc("CalledProcessError", TRUE, TRUE, 0))]
       ELSE IF Exists(fs3, png_file) THEN [files |-> fs3, out |-> Return(Bool(TRUE))]
       ELSE [files |-> fs3, out |-> Return(Bool(FALSE))]

\* the outcomes of the steps up to the first one that ends the call
RenderEnvs ==
  {env \in [mkdir : {"ok", "PermissionError", "FileNotFoundError"},
            open : {"ok", "PermissionError"},
            write : {"ok", "OSError"},
            jar : BOOLEAN,
            java : {"ok", "missing", "nonzero", "interrupt"},
            png : BOOLEAN] :
     /\ env.mkdir # "ok" => env.open = "ok"
     /\ env.open # "ok" => env.write = "ok"
     /\ (env.mkdir # "ok" \/ env.open # "ok" \/ env.write # "ok") => env.jar
     /\ (env.mkdir # "ok" \/ env.open # "ok" \/ env.write # "ok" \/ ~env.jar) => env.java = "ok"
     /\ (env.mkdir # "ok" \/ env.open # "ok" \/ env.write # "ok" \/ ~env.jar
           \/ env.java \in {"missing", "interrupt"}) => ~env.png}

RenderBases == {<<"reports", "my.trace">>, <<"out">>, <<>>}
RenderContents == {"@startuml\n@enduml\n", "@startuml\nparticipant \"f\"\n@enduml\n"}

\* one call of render_plantuml_to_png
Render(puml_content, output_file_base, env) ==
  LET r == render_plantuml_to_png(files, puml_content, output_file_base, env) IN
  /\ files' = r.files
  /\ last' = [op |-> "render", content |-> puml_content, base |-> output_file_base,
              env |-> env, out |-> r.out]
  /\ UNCHANGED <<tracer, emails, rows, script>>

NextRender ==
  \E puml_content \in RenderContents, output_file_base \in RenderBases, env \in RenderEnvs :
    Render(puml_content, output_file_base, env)

SpecRender == Init /\ [][NextRender]_vars

\* ------------------------------------------------ monitoring.py: the regex
\* _RECORDS_REGEX = Total\s+Records\sUpdated:\s*(\d+), re.IGNORECASE, over
\* texts of ASCII letters, digits, spaces and punctuation
Char(text, i) == SubSeq(text, i, i)
IsSpace(c) == c \in {" ", "\t", "\n"}
IsDigit(c) == c \in {"0", "1", "2", "3", "4", "5", "6", "7", "8", "9"}
DigitValue(c) ==
  CASE c = "0" -> 0 []
       c = "1" -> 1 []
       c = "2" -> 2 []
       c = "3" -> 3 []
       c = "4" -> 4 []
       c = "5" -> 5 []
       c = "6" -> 6 []
       c = "7" -> 7 []
       c = "8" -> 8 []
       c = "9" -> 9
\* str.lower of an ASCII character
Lower(c) ==
  CASE c = "A" -> "a" []
       c = "B" -> "b" []
       c = "C" -> "c" []
       c = "D" -> "d" []
       c = "E" -> "e" []
       c = "F" -> "f" []
       c = "G" -> "g" []
       c = "H" -> "h" []
       c = "I" -> "i" []
       c = "J" -> "j" []
       c = "K" -> "k" []
       c = "L" -> "l" []
       c = "M" -> "m" []
       c = "N" -> "n" []
       c = "O" -> "o" []
       c = "P" -> "p" []
       c = "Q" -> "q" []
       c = "R" -> "r" []
       c = "S" -> "s" []
       c = "T" -> "t" []
       c = "U" -> "u" []
       c = "V" -> "v" []
       c = "W" -> "w" []
       c = "X" -> "x" []
       c = "Y" -> "y" []
       c = "Z" -> "z" []
       OTHER -> c

\* the position after lit matched at i without regard to case, 0 if no match
MatchLiteral(text, i, lit) ==
  IF /\ i + Len(lit) - 1 <= Len(text)
     /\ \A k \in 1..Len(lit) : Lower(Char(text, i + k - 1)) = Lower(Char(lit, k))
    THEN i + Len(lit) ELSE 0

\* the position after the longest run of spaces (\s*) or digits (\d*) from i
SkipSpaces(text, i) ==
  LET run[j \in 1..(Len(text) + 1)] ==
        IF j <= Len(text) /\ IsSpace(Char(text, j)) THEN run[j + 1] ELSE j
  IN run[i]
SkipDigits(text, i) ==
  LET run[j \in 1..(Len(text) + 1)] ==
        IF j <= Len(text) /\ IsDigit(Char(text, j)) THEN run[j + 1] ELSE j
  IN run[i]

\* the match of the regex that starts at i: [from, to] of group 1, or no match.
\* "Total" has 5 characters, "Records" 7, "Updated:" 8; neither literal starts
\* with a space and no space is a digit, so the greedy runs never give back.
MatchAt(text, i) ==
  LET p2 == SkipSpaces(text, i + 5)
      p5 == SkipSpaces(text, p2 + 16)
      p6 == SkipDigits(text, p5)
  IN IF /\ MatchLiteral(text, i, "Total") # 0
        /\ p2 > i + 5
        /\ MatchLiteral(text, p2, "Records") # 0
        /\ p2 + 7 <= Len(text)
        /\ IsSpace(Char(text, p2 + 7))
        /\ MatchLiteral(text, p2 + 8, "Updated:") # 0
        /\ p6 > p5
       THEN [found |-> TRUE, from |-> p5, to |-> p6 - 1]
       ELSE [found |-> FALSE]

\* _RECORDS_REGEX.search(text): the leftmost match
Search(text) ==
  LET starts == {i \in 1..Len(text) : MatchAt(text, i).found}
  IN IF starts = {} THEN [found |-> FALSE]
     ELSE MatchAt(text, CHOOSE i \in starts : \A j \in starts : i <= j)

\* int(digits) of a decimal numeral
RECURSIVE ParseInt(_)
ParseInt(digits) ==
  IF Len(digits) = 0 THEN 0
  ELSE 10 * ParseInt(SubSeq(digits, 1, Len(digits) - 1)) + DigitValue(Char(digits, Len(digits)))

\* _extract_records_updated_from_text
_extract_records_updated_from_text(text) ==
  IF text.t # "str" THEN 0
  ELSE LET m == Search(text.s)
       IN IF m.found THEN ParseInt(SubSeq(text.s, m.from, m.to)) ELSE 0

\* --------------------------------------- alerting.py and monitoring.py
SmtpError == Exc("ConnectionRefusedError", TRUE, TRUE, 0)

\* send_error_email: the emails sent afterwards and what the call does.  With
\* no recipient configured it returns at once; connecting to the SMTP server
\* may raise.
send_error_email(box, exc, main_function_name, env) ==
  IF ~env.recipients THEN [emails |-> box, out |-> Return(None)]
  ELSE IF env.smtp # "ok" THEN [emails |-> box, out |-> Raise(SmtpError)]
  ELSE [emails |-> Append(box, [subject |-> "[ALERT] Exception in " \o main_function_name,
                                exc |-> exc]),
        out |-> Return(None)]

DbError == Exc("OperationalError", TRUE, TRUE, 0)

\* write_monitoring_db: the rows and emails afterwards and what the call does
write_monitoring_db(table, box, row, table_name, schema, env) ==
  IF env.write = "ok" THEN [rows |-> Append(table, row), emails |-> box, out |-> Return(None)]
  ELSE LET r == send_error_email(box, DbError,
                                 "Write to database " \o schema \o "." \o table_name, env)
       IN [rows |-> table, emails |-> r.emails,
           out |-> IF r.out.t = "raise" THEN r.out ELSE Raise(DbError)]

\* MonitorScript.get_summary_df with the records_updated column of the wrapper
SummaryRow(main_function_name, status, result) ==
  [main_function |-> main_function_name, status |-> status,
   records_updated |-> _extract_records_updated_from_text(result)]

\* monitor_script's wrapper, its finally block: monitor is the MonitorScript
\* object or None, pending is what the try statement left (a value to return
\* or an exception on its way out)
MonitorFinally(table, box, monitor, result, pending, main_function_name, monitoring_schema, monitoring_table, env) ==
  IF monitor = None \/ env.db_type # "postgresql"
    THEN [rows |-> table, emails |-> box, seen |-> pending]
  ELSE
    LET summary_row == SummaryRow(main_function_name, monitor.status, result)
        w == IF env.engine # "ok"
               THEN [rows |-> table, emails |-> box, out |-> Raise(DbError)]
               ELSE write_monitoring_db(table, box, summary_row, monitoring_table,
                                        monitoring_schema, env)
    IN IF w.out.t = "return" THEN [rows |-> w.rows, emails |-> w.emails, seen |-> pending]
       ELSE LET r == send_error_email(w.emails, w.out.exc,
                       "MONITORING_DB_WRITE_FAILURE (" \o main_function_name \o ")", env)
            IN [rows |-> w.rows, emails |-> r.emails,
                seen |-> IF r.out.t = "raise" THEN r.out ELSE pending]

StartError == Exc("RuntimeError", TRUE, TRUE, 0)

\* monitor_script's wrapper: the rows and emails afterwards and what the
\* caller observes.  out is what func does; env.start tells whether the
\* MonitorScript could be created and entered.
monitor_script(table, box, out, main_function_name, monitoring_schema, monitoring_table, env) ==
  IF env.start # "ok"
    THEN LET r == send_error_email(box, StartError, main_function_name, env)
         IN MonitorFinally(table, r.emails, None, None,
                           IF r.out.t = "raise" THEN r.out ELSE Raise(StartError),
                           main_function_name, monitoring_schema, monitoring_table, env)
  ELSE IF out.t = "return"
    THEN MonitorFinally(table, box, [status |-> "Success"], out.value, out,
                        main_function_name, monitoring_schema, monitoring_table, env)
  ELSE IF out.exc.isException
    THEN LET r == send_error_email(box, out.exc, main_function_name, env)
         IN MonitorFinally(table, r.emails, [status |-> "Fail"], None,
                           IF r.out.t = "raise" THEN r.out ELSE out,
                           main_function_name, monitoring_schema, monitoring_table, env)
  ELSE MonitorFinally(table, box, [status |-> "Fail"], None, out,
                      main_function_name, monitoring_schema, monitoring_table, env)

\* ------------------------------------------------ driver: monitor_script
MaxEmails == 2
MaxRows == 1

MonitorTexts ==
  {"Total Records Updated: 10", "total  records\tupdated:7",
   "Total Records  Updated: 3", "Done. TOTAL RECORDS UPDATED: 12 rows",
   "Total Records Updated: ", "done"}

MonitorOutcomes ==
  {Return(Str(text)) : text \in MonitorTexts}
  \cup {Return(None), Return([t |-> "int", n |-> 5]),
        Raise(Exc("ValueError", TRUE, TRUE, 1)),
        Raise(Exc("KeyboardInterrupt", FALSE, TRUE, 1))}

\* what the outside does during a call; a step that is not reached has its
\* first value
MonitorEnvs ==
  {env \in [start : {"ok", "fails"}, recipients : BOOLEAN, smtp : {"ok", "refused"},
            db_type : {"postgresql", "sqlite"}, engine : {"ok", "fails"},
            write : {"ok", "fails"}] :
     /\ ~env.recipients => env.smtp = "ok"
     /\ env.db_type # "postgresql" => env.engine = "ok"
     /\ (env.db_type # "postgresql" \/ env.engine # "ok" \/ env.start # "ok")
          => env.write = "ok"
     /\ env.start # "ok" => env.engine = "ok"}

\* one call of a function wrapped by monitor_script("etl_job")
Monitor(out, env) ==
  /\ Len(emails) < MaxEmails
  /\ Len(rows) < MaxRows
  /\ \E r \in {monitor_script(rows, emails, out, "etl_job", "public", "edp_monitoring", env)} :
     /\ rows' = r.rows
     /\ emails' = r.emails
     /\ last' = [op |-> "monitor", func |-> out, env |-> env, seen |-> r.seen,
                 sent |-> SubSeq(r.emails, Len(emails) + 1, Len(r.emails)),
                 written |-> SubSeq(r.rows, Len(rows) + 1, Len(r.rows))]
     /\ UNCHANGED <<tracer, files, script>>

NextMonitor == \E out \in MonitorOutcomes, env \in MonitorEnvs : Monitor(out, env)

SpecMonitor == Init /\ [][NextMonitor]_vars

\* ------------------------------------------- driver: the call signature
MaxArgs == 2

\* a string of n characters
RECURSIVE Filler(_)
Filler(n) == IF n <= 0 THEN "" ELSE "x" \o Filler(n - 1)

\* arguments whose formatted texts are short, or bring the joined text to
\* just below, exactly at and just above SIG_LIMIT characters
SigValues ==
  {None, Str("row_0"), [t |-> "list", len |-> 2], Str(Filler(47))}
  \cup {Str(Filler(n)) : n \in (SIG_LIMIT - 3)..(SIG_LIMIT - 1)}
SigArgs == UNION {[1..n -> SigValues] : n \in 0..MaxArgs}
SigKwargs == {<<>>, <<<<"path", Str("output.pkl")>>>>, <<<<"n", [t |-> "int", n |-> 7]>>>>}

\* the wrapper builds the signature of one call (plantuml_tracer.py:165-172)
Sign(callee_name, args, kwargs) ==
  /\ last' = [op |-> "signature", callee |-> callee_name, args |-> args,
              kwargs |-> kwargs, sig |-> CallSignature(callee_name, args, kwargs)]
  /\ UNCHANGED <<tracer, outside>>

NextSignature ==
  \E callee_name \in Funcs, args \in SigArgs, kwargs \in SigKwargs :
    Sign(callee_name, args, kwargs)

SpecSignature == Init /\ [][NextSignature]_vars

\* ----------------------------- MonitorScript and its sampling thread
\* The with statement of the main thread and the loop of _sample_resources,
\* one step per statement that reads or writes what the two threads share.
MaxSamples == 2

\* mutant: __exit__ goes to the join without clearing _running
SignalNothing(m) == [m EXCEPT !.main = "join", !.at_stop = Len(m.cpu_samples)]

\* MonitorScript.__enter__: _running is set, then the thread is started
__enter__(m) == [m EXCEPT !._running = TRUE, !.thread = "test", !.main = "body"]

\* MonitorScript.__exit__, "self._running = False" (at_stop remembers how many
\* samples there were at that moment)
SignalStop(m) ==
  [m EXCEPT !._running = FALSE, !.main = "join", !.at_stop = Len(m.cpu_samples)]

\* MonitorScript.__exit__, "self._sampling_thread.join()" returns
JoinReturns(m) == m.thread = "done"

\* the text of traceback.format_exception for an exception
FormatException(e) == "Traceback (most recent call last): " \o e.kind

\* MonitorScript.__exit__, from "if exc_type:" to "return False"
RecordStatus(m, out) ==
  IF out.t = "raise"
    THEN [m EXCEPT !.status = "Fail", !.error_message = Str(FormatException(out.exc)),
                   !.main = "returned"]
    ELSE [m EXCEPT !.main = "returned"]

\* _sample_resources, "while self._running:"
LoopTest(m) == [m EXCEPT !.thread = IF m._running THEN "cpu" ELSE "done"]

\* _sample_resources, the two sampling statements: psutil returns a sample,
\* raises NoSuchProcess or AccessDenied ("denied"), or raises something else,
\* which ends the thread ("error")
SampleCpu(m, r) ==
  IF r = "ok" THEN [m EXCEPT !.cpu_samples = Append(@, 50), !.thread = "mem"]
  ELSE IF r = "denied" THEN [m EXCEPT !.thread = "handler"]
  ELSE [m EXCEPT !.thread = "done"]
SampleMem(m, r) ==
  IF r = "ok" THEN [m EXCEPT !.mem_samples = Append(@, 64), !.thread = "sleep"]
  ELSE IF r = "denied" THEN [m EXCEPT !.thread = "handler"]
  ELSE [m EXCEPT !.thread = "done"]

\* _sample_resources, the handler: "self._running = False"
SampleHandler(m) == [m EXCEPT !._running = FALSE, !.thread = "sleep"]

\* _sample_resources, "time.sleep(0.5)" returns
SleepReturns(m) == [m EXCEPT !.thread = "test"]

PsutilResults == {"ok", "denied", "error"}
BodyOutcomes ==
  {Return(None), Raise(Exc("ValueError", TRUE, TRUE, 1)),
   Raise(Exc("KeyboardInterrupt", FALSE, TRUE, 1))}

\* ---- the main thread: with MonitorScript(...) as m: body
ScriptEnter ==
  /\ script.main = "new"
  /\ script' = __enter__(script)
  /\ UNCHANGED <<tracer, last, files, emails, rows>>

\* the body returns or raises: __exit__ is called with what it raised
BodyEnds(out) ==
  /\ script.main = "body"
  /\ script' = [script EXCEPT !.main = "exit"]
  /\ last' = [op |-> "with", func |-> out, seen |-> Running]
  /\ UNCHANGED <<tracer, files, emails, rows>>

ExitSignal ==
  /\ script.main = "exit"
  /\ script' = SignalStop(script)
  /\ UNCHANGED <<tracer, last, files, emails, rows>>

ExitJoin ==
  /\ script.main = "join"
  /\ JoinReturns(script)
  /\ script' = [script EXCEPT !.main = "record"]
  /\ UNCHANGED <<tracer, last, files, emails, rows>>

\* __exit__ returns False: the with statement ends as its body did
ExitReturn ==
  /\ script.main = "record"
  /\ script' = RecordStatus(script, last.func)
  /\ last' = [last EXCEPT !.seen = last.func]
  /\ UNCHANGED <<tracer, files, emails, rows>>

\* ---- the sampling thread.  It sleeps between two samples; the model lets
\* it take at most MaxSamples samples while _running stays set.
ThreadTest ==
  /\ script.thread = "test"
  /\ script._running => Len(script.cpu_samples) < MaxSamples
  /\ script' = LoopTest(script)
  /\ UNCHANGED <<tracer, last, files, emails, rows>>

ThreadCpu(r) ==
  /\ script.thread = "cpu"
  /\ script' = SampleCpu(script, r)
  /\ UNCHANGED <<tracer, last, files, emails, rows>>

ThreadMem(r) ==
  /\ script.thread = "mem"
  /\ script' = SampleMem(script, r)
  /\ UNCHANGED <<tracer, last, files, emails, rows>>

ThreadHandler ==
  /\ script.thread = "handler"
  /\ script' = SampleHandler(script)
  /\ UNCHANGED <<tracer, last, files, emails, rows>>

ThreadSleep ==
  /\ script.thread = "sleep"
  /\ script' = SleepReturns(script)
  /\ UNCHANGED <<tracer, last, files, emails, rows>>

MainThread ==
  \/ ScriptEnter
  \/ \E out \in BodyOutcomes : BodyEnds(out)
  \/ ExitSignal
  \/ ExitJoin
  \/ ExitReturn

SamplingThread ==
  \/ ThreadTest
  \/ \E r \in PsutilResults : ThreadCpu(r)
  \/ \E r \in PsutilResults : ThreadMem(r)
  \/ ThreadHandler
  \/ ThreadSleep

NextSampler == MainThread \/ SamplingThread

SpecSampler == Init /\ [][NextSampler]_vars

\* a thread that can run does run, and __exit__, once called, goes on; the
\* body may take for ever
SpecSamplerFair ==
  /\ SpecSampler
  /\ WF_vars(SamplingThread)
  /\ WF_vars(ExitSignal \/ ExitJoin \/ ExitReturn)

\* ================================================================= claims
\* get_diagram was the last operation: _uml_lines are the lines of its text
AfterDiagram == stack = <<>> /\ last.op = "get_diagram"

\* block occurs in lines as a contiguous run of lines
Contains(lines, block) ==
  \E k \in 1..(Len(lines) - Len(block) + 1) :
    SubSeq(lines, k, k + Len(block) - 1) = block

\* number of lines equal to line
Count(lines, line) == Cardinality({k \in 1..Len(lines) : lines[k] = line})

\* the four lines that stand for the finished call c of the history
ResultLine(c) ==
  IF c.out.t = "return"
    THEN ReturnArrowLine(c.info[1], c.info[2], Formatted(c.out.value))
    ELSE ExceptionArrowLine(c.info[1], c.info[2], c.out.exc.kind)
LinesOf(c) ==
  <<CallArrowLine(c.info[1], c.info[2], c.sig), ActivateLine(c.info[2]),
    ResultLine(c), DeactivateLine(c.info[2])>>

\* calls a..b of the history are a run: consecutive traced calls with one
\* identity and no get_diagram in between, which cannot be extended
SameRun(j, k) == calls[j].info = calls[k].info /\ calls[j].epoch = calls[k].epoch
IsRun(a, b) ==
  /\ 1 <= a /\ a <= b /\ b <= Len(calls)
  /\ \A k \in a..b : SameRun(a, k)
  /\ a > 1 => ~SameRun(a - 1, a)
  /\ b < Len(calls) => ~SameRun(b, b + 1)

\* the names of the callees of the history, in call order
Callees == [k \in 1..Len(calls) |-> calls[k].info[2]]

\* main()'s first three calls (main.py:67-69) followed by get_diagram
MainScenario ==
  /\ AfterDiagram
  /\ ndiagrams = 1
  /\ Callees = <<"load_data", "process_data", "parse_row", "parse_row",
                 "parse_row", "save_data">>
  /\ calls[1].sig = "load_data('data.csv')"

\* C1: after load(path), process(data) calling parse(row) three times, and
\* save(data, path), the diagram shows load and save once each, unrolled, and
\* parse as one "loop 3 times" block around one call/return pair.
C1_MainDiagram ==
  MainScenario =>
    /\ Count(_uml_lines, LinesOf(calls[1])[1]) = 1
    /\ Contains(_uml_lines, LinesOf(calls[1]))
    /\ Count(_uml_lines, LinesOf(calls[6])[1]) = 1
    /\ Contains(_uml_lines, LinesOf(calls[6]))
    /\ Count(_uml_lines, LoopOpenLine(3)) = 1
    /\ Contains(_uml_lines, <<LoopOpenLine(3)>> \o LinesOf(calls[3]) \o <<LoopCloseLine>>)

\* C2: across any sequence of traced calls, nested ones included, the pending
\* slot is never overwritten while it holds an unflushed group: a step that
\* leaves a group in the slot of a state that held one only counts a repeat.
C2_NoOverwrite ==
  [][(_pending_call # None /\ _pending_call' # None)
       => _pending_call' = [_pending_call EXCEPT !.count = @ + 1]]_vars

\* C3: the caller of a wrapped function observes exactly what the function
\* did: the value it returned or the exception instance it raised.
C3_BehaviourPreserving ==
  last.op = "call" => last.seen = last.func

\* C4: after get_diagram, every run of N >= LOOP_THRESHOLD consecutive calls
\* with one identity stands in the diagram as "loop N times", the four lines
\* of the run's first call, "end".
C4_LoopBlock ==
  AfterDiagram =>
    \A a \in 1..Len(calls), b \in 1..Len(calls) :
      (IsRun(a, b) /\ b - a + 1 >= LOOP_THRESHOLD) =>
        Contains(_uml_lines,
                 <<LoopOpenLine(b - a + 1)>> \o LinesOf(calls[a]) \o <<LoopCloseLine>>)

\* C5: after get_diagram, every run of N < LOOP_THRESHOLD consecutive calls
\* with one identity stands in the diagram as the four lines of the call,
\* N times in a row.
C5_Unrolled ==
  AfterDiagram =>
    \A a \in 1..Len(calls), b \in 1..Len(calls) :
      (IsRun(a, b) /\ b - a + 1 < LOOP_THRESHOLD) =>
        Contains(_uml_lines, Unrolled(LinesOf(calls[a]), b - a + 1))

\* i, j, k are three calls in a row of one caller, none of which calls a
\* traced function itself
Leaf(i) == \A m \in 1..Len(calls) : calls[m].parent # i
InARow(i, j, k) ==
  /\ i < j /\ j < k
  /\ calls[i].parent = calls[j].parent /\ calls[j].parent = calls[k].parent
  /\ \A m \in (i + 1)..(k - 1) : m # j => calls[m].parent # calls[i].parent
  /\ Leaf(i) /\ Leaf(j) /\ Leaf(k)

\* C6: calls f, g, f made in a row by one caller stand in the diagram as
\* three separate entries in call order; the two f are not merged.
C6_NotMerged ==
  AfterDiagram =>
    \A i \in 1..Len(calls), j \in 1..Len(calls), k \in 1..Len(calls) :
      ( /\ InARow(i, j, k)
        /\ calls[i].info = calls[k].info
        /\ calls[i].info # calls[j].info ) =>
        Contains(_uml_lines, LinesOf(calls[i]) \o LinesOf(calls[j]) \o LinesOf(calls[k]))

\* the place of name in the order in which names were first registered: the
\* caller of a call is registered before its callee
SeenAt(name) ==
  LET at(k) == IF calls[k].info[1] = name THEN 2 * k - 1
               ELSE IF calls[k].info[2] = name THEN 2 * k
               ELSE 2 * Len(calls) + 1
      places == {at(k) : k \in 1..Len(calls)}
  IN CHOOSE x \in places : \A y \in places : x <= y
DeclaredAt(name) ==
  CHOOSE k \in 1..Len(_uml_lines) : _uml_lines[k] = ParticipantLine(name)

\* C7: a participant registered before another one is declared before it.
C7_FirstSeenOrder ==
  \A a \in _participants, b \in _participants :
    SeenAt(a) < SeenAt(b) => DeclaredAt(a) < DeclaredAt(b)

\* the names that have been the caller or the callee of a traced call
Involved == {calls[k].info[1] : k \in 1..Len(calls)} \cup {calls[k].info[2] : k \in 1..Len(calls)}

\* C8: every name that has been a caller or a callee has exactly one
\* participant declaration in the line buffer, in every state.
C8_OneDeclaration ==
  /\ _participants = Involved
  /\ \A name \in Involved : Count(_uml_lines, ParticipantLine(name)) = 1

\* a name involved in three calls, with body lines already in the buffer
C8_Witness ==
  /\ \E name \in Involved :
       Cardinality({k \in 1..Len(calls) : name \in {calls[k].info[1], calls[k].info[2]}}) >= 3
  /\ Len(_uml_lines) > 1 + Cardinality(_participants)

\* an exception of an ordinary kind: its class derives from Exception and
\* its instances are truthy
Ordinary(out) == out.t = "raise" /\ out.exc.isException /\ out.exc.truthy

\* C9: every failure raised by a traced function, in a first call or in a
\* repeat, has its exception arrow in the final diagram and reaches the
\* caller (stated here for exceptions of an ordinary kind).
C9_FailureRecorded ==
  /\ (last.op = "call" /\ Ordinary(last.func)) => last.seen = last.func
  /\ AfterDiagram =>
       \A k \in 1..Len(calls) :
         Ordinary(calls[k].out) =>
           \E n \in 1..Len(_uml_lines) : _uml_lines[n] = ResultLine(calls[k])

\* the lines of the buffer after the participant declarations
BodyLines == SubSeq(_uml_lines, 2 + Cardinality(_participants), Len(_uml_lines))

\* C10: one traced call that raises gives the diagram a call arrow, an
\* activate line, an exception arrow naming the kind and a deactivate line,
\* and its caller observes the exception instance the function raised.
C10_SingleRaise ==
  (Len(calls) = 1 /\ stack = <<>> /\ calls[1].out.t = "raise") =>
    /\ last.op = "call" => last.seen = last.func
    /\ AfterDiagram => BodyLines = LinesOf(calls[1])

\* C11: get_diagram called twice in a row, with no traced call in between,
\* returns the same text both times.
C11_DiagramIdempotent ==
  [][(AfterDiagram /\ ndiagrams' = ndiagrams + 1) => last'.text = last.text]_vars

\* get_diagram twice in a row, the first one flushing a group of
\* LOOP_THRESHOLD calls or more
C11_Witness ==
  /\ AfterDiagram
  /\ ndiagrams = 2
  /\ Len(calls) >= LOOP_THRESHOLD
  /\ \A k \in 1..Len(calls) : calls[k].epoch = 0
  /\ Contains(_uml_lines, <<LoopOpenLine(Len(calls))>>)

\* line is a participant declaration
IsDeclaration(line) == Len(line) >= 12 /\ SubSeq(line, 1, 12) = "participant "

\* C12: the buffer is "@startuml", then all the participant declarations in
\* one block, then the body lines: no declaration stands after a body line.
C12_DeclarationsGrouped ==
  LET n == Cardinality(_participants) IN
  /\ Len(_uml_lines) >= 1 + n
  /\ _uml_lines[1] = "@startuml"
  /\ \A k \in 2..(1 + n) : IsDeclaration(_uml_lines[k])
  /\ \A k \in (2 + n)..Len(_uml_lines) : ~IsDeclaration(_uml_lines[k])

\* a callee registered by a call made after get_diagram had put the body
\* lines of earlier calls into the buffer
C12_Witness ==
  \E k \in 2..Len(calls) :
    /\ calls[k].epoch >= 1
    /\ calls[1].epoch = 0
    /\ \A j \in 1..(k - 1) : calls[k].info[2] \notin {calls[j].info[1], calls[j].info[2]}
    /\ Len(_uml_lines) > 1 + Cardinality(_participants)

\* what the claim says _format_value returns for the value it was given
FormatAsClaimed ==
  /\ last.out.t = "return"
  /\ Len(last.out.value) > 0
  /\ FormatRules(last.val).t = "raise" =>
       last.out.value \in {"<Object type: " \o TypeName(last.val) \o ">",
                           "<Error: Unformattable Object>"}
  /\ (FormatRules(last.val).t = "raise" /\ ~NameFails(last.val)) =>
       last.out.value = "<Object type: " \o TypeName(last.val) \o ">"

\* C13 as stated: _format_value never raises and returns a non-empty string
\* for every value, the fallback strings when an operation of the value fails.
C13_NeverRaises == last.op = "format" => FormatAsClaimed

\* the failures of the value's operations are Exceptions, and its repr, if
\* overridden, is not the empty string
Benign(val) ==
  /\ "fault" \in DOMAIN val => val.fault.exc.isException
  /\ "repr" \in DOMAIN val => val.repr # ""

\* C13, amended: for every value whose failing operations raise an Exception
\* and whose repr is not empty, _format_value does not raise and returns a
\* non-empty string, the fallback strings when an operation of the value fails.
C13_NeverRaisesException ==
  (last.op = "format" /\ Benign(last.val)) => FormatAsClaimed

\* a length query failed with an Exception and the first fallback was returned
C13_Witness ==
  /\ last.op = "format"
  /\ FaultAt(last.val, "len") /\ last.val.fault.exc.isException
  /\ last.val.t = "list" /\ ~NameFails(last.val)
  /\ last.out = Return("<Object type: Weird>")

\* the return arrow in the wire format: one space after the colon
WireReturnArrowLine(caller_name, callee_name, formatted_result) ==
  "\"" \o callee_name \o "\" --> \"" \o caller_name \o "\": return " \o formatted_result

\* the lines of the wire format that the calls of the history can give
WireLines ==
  UNION {{CallArrowLine(calls[k].info[1], calls[k].info[2], calls[k].sig),
          ActivateLine(calls[k].info[2]),
          DeactivateLine(calls[k].info[2]),
          LoopOpenLine(k),
          LoopCloseLine} : k \in 1..Len(calls)}
  \cup {WireReturnArrowLine(calls[k].info[1], calls[k].info[2], Formatted(calls[k].out.value)) :
          k \in {j \in 1..Len(calls) : calls[j].out.t = "return"}}
  \cup {ExceptionArrowLine(calls[k].info[1], calls[k].info[2], calls[k].out.exc.kind) :
          k \in {j \in 1..Len(calls) : calls[j].out.t = "raise"}}

\* C14: every body line the tracer produces, buffered in the pending group or
\* emitted, has one of the shapes of the wire format; the return arrow is
\* "callee" --> "caller": return value, with one space after the colon.
C14_WireFormat ==
  /\ \A n \in 1..Len(BodyLines) : BodyLines[n] \in WireLines
  /\ _pending_call # None =>
       \A n \in 1..Len(_pending_call.lines) : _pending_call.lines[n] \in WireLines

\* the step is the entry of a call that repeats the pending identity
RepeatEntry == Len(calls') = Len(calls) + 1 /\ calls'[Len(calls')].repeat

\* the step is the end of a repeat whose function made no traced call
RepeatLeafExit ==
  /\ stack # <<>>
  /\ Len(stack') = Len(stack) - 1
  /\ stack[Len(stack)].repeat
  /\ stack[Len(stack)].id = Len(calls)

\* C20: a call that repeats the pending identity, and whose function makes no
\* traced call, adds exactly 1 to the count of the pending group and changes
\* nothing else of the tracer, whether the function returns or raises.
C20_RepeatEmitsNothing ==
  [][ /\ RepeatEntry =>
           /\ _pending_call # None
           /\ _pending_call' = [_pending_call EXCEPT !.count = @ + 1]
           /\ UNCHANGED <<_uml_lines, _participants>>
      /\ RepeatLeafExit => UNCHANGED <<_uml_lines, _participants, _pending_call>>
    ]_vars

\* a repeat whose function raised has just ended
C20_Witness ==
  /\ last.op = "call"
  /\ last.id = Len(calls)
  /\ calls[last.id].repeat
  /\ last.func.t = "raise"
  /\ stack = <<>>
  /\ _pending_call # None
  /\ _pending_call.count = 2

\* the rendering toolchain has run in the last call of the renderer
ToolchainRan ==
  /\ PathName(last.base) # ""
  /\ last.env.mkdir = "ok" /\ last.env.open = "ok" /\ last.env.write = "ok"
  /\ last.env.jar
  /\ last.env.java \in {"ok", "nonzero"}

PumlFile == PathStr(WithSuffix(last.base, ".puml"))
PngFile == PathStr(WithSuffix(last.base, ".png"))

SourceWritten == Exists(files, PumlFile) /\ ReadFile(files, PumlFile) = last.content

\* C16 as stated: in every failure case of render_plantuml_to_png, the case
\* that the source file cannot be written included, the source file has been
\* written with the diagram text when the function returns.
C16_SourceAlwaysWritten ==
  (last.op = "render" /\ last.out = Return(Bool(FALSE))) => SourceWritten

\* C16, amended: in every failure case that comes after the writing of the
\* source file (jar missing, java not found, non-zero exit status, image
\* missing), the source file has been written with the diagram text.
C16_SourceWrittenBeforeToolchain ==
  ( /\ last.op = "render"
    /\ last.out = Return(Bool(FALSE))
    /\ last.env.mkdir = "ok" /\ last.env.open = "ok" /\ last.env.write = "ok" )
  => SourceWritten

\* the toolchain exited with a non-zero status and the source file is there
C16_Witness ==
  /\ last.op = "render"
  /\ last.out = Return(Bool(FALSE))
  /\ ToolchainRan /\ last.env.java = "nonzero"
  /\ SourceWritten

\* a rendering failure happened in the last call of the renderer
RenderingFailure ==
  /\ PathName(last.base) # ""
  /\ \/ last.env.mkdir # "ok" \/ last.env.open # "ok" \/ last.env.write # "ok"
     \/ ~last.env.jar
     \/ last.env.java \in {"missing", "nonzero"}

\* C17: when the jar is missing or java is not found, when the directory or
\* the source file cannot be written, or when the toolchain exits with a
\* non-zero status, render_plantuml_to_png returns False and does not raise.
C17_FailureReturnsFalse ==
  (last.op = "render" /\ RenderingFailure) => last.out = Return(Bool(FALSE))

\* java was not found, and the renderer returned False
C17_Witness ==
  /\ last.op = "render"
  /\ last.env.mkdir = "ok" /\ last.env.open = "ok" /\ last.env.write = "ok"
  /\ last.env.jar /\ last.env.java = "missing"
  /\ last.out = Return(Bool(FALSE))

\* the alert of monitor_script's wrapper for the failure exc of the function
FunctionAlert(exc) == [subject |-> "[ALERT] Exception in etl_job", exc |-> exc]
Sent(email) == \E k \in 1..Len(last.sent) : last.sent[k] = email

\* C18: when the function wrapped by monitor_script raises an exception, the
\* wrapper sends the alert for that exception (to the configured recipients)
\* and the caller gets the same exception; the summary step of the finally
\* block does not replace it.
C18_AlertAndReraise ==
  ( /\ last.op = "monitor"
    /\ last.env.start = "ok"
    /\ last.func.t = "raise"
    /\ last.func.exc.isException )
  => /\ last.seen = last.func
     /\ last.env.recipients => Sent(FunctionAlert(last.func.exc))

\* C19: when the function wrapped by monitor_script returns, the wrapper
\* returns the function's value, sends no alert for the function, and the
\* summary row has the count parsed from the returned text: 10 for "Total
\* Records Updated: 10", 0 for a value that is no such string.
C19_ReturnsValue ==
  ( /\ last.op = "monitor"
    /\ last.env.start = "ok"
    /\ last.func.t = "return" )
  => /\ last.seen = last.func
     /\ \A k \in 1..Len(last.sent) : last.sent[k].subject # "[ALERT] Exception in etl_job"
     /\ \A k \in 1..Len(last.written) :
          /\ last.written[k].records_updated =
               _extract_records_updated_from_text(last.func.value)
          /\ last.func.value = Str("Total Records Updated: 10") =>
               last.written[k].records_updated = 10
          /\ last.func.value \in {None, Str("done"), [t |-> "int", n |-> 5]} =>
               last.written[k].records_updated = 0

\* the step is the end of the wrapper of a new (non-repeat) call
NewCallExit ==
  /\ stack # <<>>
  /\ Len(stack') = Len(stack) - 1
  /\ ~stack[Len(stack)].repeat

\* C21: when a new (non-repeat) traced call completes, whatever its outcome,
\* the pending slot holds the group of that call: its (caller, callee), count
\* 1 and the four lines call arrow, activate, return-or-exception arrow,
\* deactivate.
C21_NewCallPending ==
  [][NewCallExit =>
       LET c == calls'[stack[Len(stack)].id] IN
       _pending_call' = [info |-> c.info, lines |-> LinesOf(c), count |-> 1]]_vars

\* the indices of the diagram lines that are the call arrow of call c
ArrowsOf(c) == {i \in 1..Len(_uml_lines) : _uml_lines[i] = LinesOf(c)[1]}

\* C22: in the final diagram, when a traced call c was made during the
\* execution of a traced call p, p's call arrow and activate lines stand
\* before the lines of c, and p's return-or-exception arrow and deactivate
\* lines stand after them.
C22_NestingOrder ==
  AfterDiagram =>
    \A n \in 1..Len(calls) :
      LET c == calls[n] IN
      c.parent # 0 =>
        LET p == calls[c.parent] IN
        \A i \in ArrowsOf(c) :
          /\ \E j \in 1..(i - 2) :
               /\ _uml_lines[j] = LinesOf(p)[1]
               /\ _uml_lines[j + 1] = LinesOf(p)[2]
          /\ \E k \in (i + 4)..(Len(_uml_lines) - 1) :
               /\ _uml_lines[k] = LinesOf(p)[3]
               /\ _uml_lines[k + 1] = LinesOf(p)[4]

\* the (caller, callee) identities of the history and the number of traced
\* invocations of each
Identities == {calls[k].info : k \in 1..Len(calls)}
Invocations(info) == Cardinality({k \in 1..Len(calls) : calls[k].info = info})

\* the number of occurrences the line-set starting at line i stands for: the
\* count of the loop block it is in, 1 when it is unrolled
Weight(i) ==
  IF i > 1 /\ \E n \in 1..Len(calls) : _uml_lines[i - 1] = LoopOpenLine(n)
    THEN CHOOSE n \in 1..Len(calls) : _uml_lines[i - 1] = LoopOpenLine(n)
    ELSE 1

\* the number of call occurrences of an identity that the diagram represents
Represented(info) ==
  Cardinality({x \in (1..Len(_uml_lines)) \X (1..Len(calls)) :
                 /\ \E k \in 1..Len(calls) :
                      calls[k].info = info /\ _uml_lines[x[1]] = LinesOf(calls[k])[1]
                 /\ x[2] <= Weight(x[1])})

\* C23: after get_diagram, for every (caller, callee) identity the diagram
\* represents as many call occurrences (1 per unrolled line-set, N per
\* "loop N times" block) as traced invocations of that identity were made.
C23_Conservation ==
  AfterDiagram => \A info \in Identities : Represented(info) = Invocations(info)

\* other argument lists and other outcomes a repeat call could have had
OtherArgs ==
  {<<>>, <<None>>, <<Str("data.csv"), [t |-> "int", n |-> 7]>>,
   <<[t |-> "list", len |-> 2]>>}
OtherOutcomes(id) == Outcomes(id) \cup {Return(None), Return(Str("some,csv,data"))}

\* a call of callee_name made now would repeat the pending identity
WouldRepeat(callee_name) ==
  WrapperEnter(Tracer, CurrentFrame, callee_name, <<>>, <<>>, 0).frame.repeat

\* C24: repeat detection ignores arguments and outcomes.  Stepwise: the tracer
\* after the entry of a repeat is the same whatever the arguments, the tracer
\* after its end is the same whatever it returned or raised, and the lines of
\* the pending group are those of the first call of the run; so executions
\* that differ only there give the same diagram text.
C24_RepeatsIgnored ==
  /\ \A callee_name \in Funcs :
       WouldRepeat(callee_name) =>
         \A args \in OtherArgs :
           LET r == WrapperEnter(Tracer, CurrentFrame, callee_name, args, <<>>, 0) IN
           /\ r.frame.repeat
           /\ r.tracer = [Tracer EXCEPT !.pending_call.count = @ + 1]
  /\ (stack # <<>> /\ stack[Len(stack)].repeat) =>
       \A out \in OtherOutcomes(stack[Len(stack)].id), args \in OtherArgs :
         WrapperExit(Tracer, [stack[Len(stack)] EXCEPT !.args = args], out).tracer = Tracer
  /\ _pending_call # None =>
       \E k \in 1..Len(calls) :
         /\ ~calls[k].repeat
         /\ calls[k].out # Running
         /\ calls[k].info = _pending_call.info
         /\ _pending_call.lines = LinesOf(calls[k])

\* the diagram of a run of two calls whose second one raised: the lines of the
\* first call, which returned, twice
C24_Witness ==
  /\ AfterDiagram
  /\ Len(calls) = 2
  /\ calls[2].repeat
  /\ calls[1].out.t = "return"
  /\ calls[2].out.t = "raise"
  /\ BodyLines = LinesOf(calls[1]) \o LinesOf(calls[1])

\* the lines a group of n calls is rendered as, c being its first call
GroupLines(c, n) ==
  IF n >= LOOP_THRESHOLD
    THEN <<LoopOpenLine(n)>> \o LinesOf(c) \o <<LoopCloseLine>>
    ELSE Unrolled(LinesOf(c), n)

\* the calls made before the first get_diagram, and between the two
CallsOfEpoch(e) == {k \in 1..Len(calls) : calls[k].epoch = e}

\* all calls were made by the outside code, with one identity, some before
\* the first get_diagram and some between the first and the second
SplitRun ==
  /\ AfterDiagram
  /\ ndiagrams = 2
  /\ CallsOfEpoch(0) # {}
  /\ CallsOfEpoch(1) # {}
  /\ \A k \in 1..Len(calls) : calls[k].parent = 0 /\ calls[k].info = calls[1].info

\* the body of the diagram is the group of the first k calls followed by the
\* group of the m later ones
TwoGroups ==
  SplitRun =>
    LET k == Cardinality(CallsOfEpoch(0))
        m == Cardinality(CallsOfEpoch(1))
    IN BodyLines = GroupLines(calls[1], k) \o GroupLines(calls[k + 1], m)

\* C25: get_diagram consumes the pending group: it leaves the slot empty, the
\* next traced call starts a new group (it is not a repeat), k calls,
\* get_diagram and m more calls of the same identity are rendered as a group
\* of k followed by a group of m, and no step rewrites a body line that is
\* already in the buffer.
C25_DiagramConsumes ==
  [][ /\ ndiagrams' = ndiagrams + 1 => _pending_call' = None
      /\ (AfterDiagram /\ Len(calls') = Len(calls) + 1) =>
           (~calls'[Len(calls')].repeat /\ _pending_call' = None)
      /\ TwoGroups'
      /\ Len(BodyLines) <= Len(BodyLines')
      /\ SubSeq(BodyLines', 1, Len(BodyLines)) = BodyLines
    ]_vars

\* two calls, get_diagram, one more call of the same identity, get_diagram:
\* three calls in all, and three unrolled line-sets
C25_Witness ==
  /\ SplitRun
  /\ Cardinality(CallsOfEpoch(0)) = 2
  /\ Cardinality(CallsOfEpoch(1)) = 1
  /\ BodyLines = LinesOf(calls[1]) \o LinesOf(calls[1]) \o LinesOf(calls[3])

\* the indices of the loop-open lines and of the "end" lines of the buffer
LoopOpens ==
  {i \in 1..Len(_uml_lines) :
     Len(_uml_lines[i]) >= 5 /\ SubSeq(_uml_lines[i], 1, 5) = "loop "}
LoopEnds == {i \in 1..Len(_uml_lines) : _uml_lines[i] = LoopCloseLine}

\* C26: in the lines of every diagram, each loop-open line carries a count of
\* at least LOOP_THRESHOLD and is followed by the four lines of one call and
\* then by "end"; every "end" closes such a block, so blocks are not nested
\* and there are as many "end" lines as loop-open lines.
C26_LoopsWellFormed ==
  /\ \A i \in LoopOpens :
       /\ \E n \in LOOP_THRESHOLD..Len(calls) : _uml_lines[i] = LoopOpenLine(n)
       /\ i + 5 <= Len(_uml_lines)
       /\ \E k \in 1..Len(calls) :
            /\ calls[k].out # Running
            /\ SubSeq(_uml_lines, i + 1, i + 4) = LinesOf(calls[k])
       /\ _uml_lines[i + 5] = LoopCloseLine
  /\ \A i \in LoopEnds : (i - 5) \in LoopOpens
  /\ Cardinality(LoopOpens) = Cardinality(LoopEnds)

\* a diagram with a loop block of three calls
C26_Witness ==
  /\ AfterDiagram
  /\ \E i \in LoopOpens : _uml_lines[i] = LoopOpenLine(3)
  /\ LoopEnds # {}

\* no operation of the value fails: its class overrides nothing with a
\* raising method or property
Sound(val) == "fault" \notin DOMAIN val /\ ~NameFails(val)

\* the text of the first rule of the claim's list that matches the value
RuleText(val) ==
  CASE val.t = "None" -> "None"
    [] val.t = "class" -> "<Class: " \o val.name \o ">"
    [] val.t = "DataFrame" ->
         "<DataFrame shape=(" \o ToString(val.rows) \o ", " \o ToString(val.cols) \o ")>"
    [] val.t = "Series" ->
         "<" \o (IF val.name = "" THEN "Series" ELSE val.name)
             \o " len=" \o ToString(val.len) \o ">"
    [] val.t \in {"str", "int", "bool"} -> ReprOf(val)
    [] val.t = "Path" -> "Path('" \o val.parts[Len(val.parts)] \o "')"
    [] val.t \in {"list", "dict", "tuple"} ->
         "<" \o TypeName(val) \o " len=" \o ToString(val.len) \o ">"
    [] OTHER -> "<" \o TypeName(val) \o " object>"

\* C27: for every value whose operations do not fail, _format_value returns
\* the text of the first matching rule, in the order none, class reference,
\* dataframe, series, primitive scalar, path (last component only),
\* list/mapping/tuple (type name and length only, never the contents), any
\* other object.
C27_RuleOrder ==
  (last.op = "format" /\ Sound(last.val)) => last.out = Return(RuleText(last.val))

\* a list of two elements was formatted: its text names the type and the
\* length, not the elements
C27_Witness ==
  /\ last.op = "format"
  /\ last.val.t = "list"
  /\ Sound(last.val)
  /\ "items" \in DOMAIN last.val
  /\ last.val.items[1] = Str("a")
  /\ last.out = Return("<list len=2>")

\* the formatted positional arguments followed by the key=value keyword
\* arguments, joined with ", "
JoinedText(args, kwargs) ==
  Join([i \in 1..Len(args) |-> Formatted(args[i])]
         \o [i \in 1..Len(kwargs) |-> kwargs[i][1] \o "=" \o Formatted(kwargs[i][2])],
       ", ")

\* the argument text of a signature: what stands between "callee(" and ")"
ArgumentText(sig, callee_name) == SubSeq(sig, Len(callee_name) + 2, Len(sig) - 1)

\* C28: the argument text of a call signature is the joined text when that
\* has at most 100 characters, and its first 100 characters followed by "..."
\* when it is longer; it never exceeds 103 characters.
C28_Truncation ==
  last.op = "signature" =>
    LET joined == JoinedText(last.args, last.kwargs)
        text == ArgumentText(last.sig, last.callee)
    IN /\ last.sig = last.callee \o "(" \o text \o ")"
       /\ Len(joined) > 100 => text = SubSeq(joined, 1, 100) \o "..."
       /\ Len(joined) <= 100 => text = joined
       /\ Len(text) <= 103

\* a joined text of 101 characters was cut to 100 and "..."
C28_Witness ==
  /\ last.op = "signature"
  /\ Len(JoinedText(last.args, last.kwargs)) = 101
  /\ Len(ArgumentText(last.sig, last.callee)) = 103

\* __exit__ has returned
Exited == script.main = "returned"

\* C29: for every interleaving of the body, the sampling thread and __exit__,
\* the join in __exit__ completes and __exit__ returns; when it has returned
\* the sampling thread has ended, the with statement ends as its body did
\* (__exit__ returns False), and status is "Fail" with an error message if
\* and only if the body raised; afterwards no sample is appended.
C29_SamplerStops ==
  /\ (script.main = "join") ~> Exited
  /\ [](Exited =>
          /\ script.thread = "done"
          /\ ~script._running
          /\ last.seen = last.func
          /\ (script.status = "Fail") <=> (last.func.t = "raise")
          /\ (script.error_message # None) <=> (last.func.t = "raise")
          /\ script.status \in {"Success", "Fail"})
  /\ [][Exited => /\ script'.cpu_samples = script.cpu_samples
                  /\ script'.mem_samples = script.mem_samples]_vars

\* the body raised while the thread was taking a sample: the sample was
\* appended after _running was cleared, and __exit__ returned after it
C29_Witness ==
  /\ Exited
  /\ last.func.t = "raise"
  /\ script.status = "Fail"
  /\ Len(script.cpu_samples) > script.at_stop

\* the last call of the wrapper reached the database write of its finally
\* block, and creating the engine or writing the row failed
SummaryWriteFailed ==
  /\ last.op = "monitor"
  /\ last.env.start = "ok"
  /\ last.env.db_type = "postgresql"
  /\ last.env.engine # "ok" \/ last.env.write # "ok"

MonitoringAlert(exc) ==
  [subject |-> "[ALERT] Exception in MONITORING_DB_WRITE_FAILURE (etl_job)", exc |-> exc]

\* C30: when the database write of monitor_script's finally block fails, the
\* failure is alerted and the caller still gets what the wrapped function
\* returned or raised, never the failure of the monitoring step.
C30_MonitoringFailureContained ==
  SummaryWriteFailed =>
    /\ last.seen = last.func
    /\ last.written = <<>>
    /\ last.env.recipients => Sent(MonitoringAlert(DbError))

====
